---- MODULE Spec2Model ----
(* Model of the score-weighted cache (ScoreCache) of britt/gcache:           *)
(* src/score.go.  The cache keeps an index (items), a binary min-heap on the *)
(* score (evictList, driven by container/heap) and a running totalWeight.    *)
EXTENDS Integers, Sequences, FiniteSets, TLC

(* ------------------------------------------------------------------------ *)
(* Bounds of the model                                                       *)
(* ------------------------------------------------------------------------ *)
NumKeys == 3
MaxScore == 3
MaxWeight == 2
MaxSize == 2
MaxHeap == 3
NumThreads == 2
MaxOps == 1
MaxElapsed == 2

Keys == 1..NumKeys
Scores == 1..MaxScore
Weights == 1..MaxWeight
Sizes == 1..MaxSize
Threads == 1..NumThreads

(* A value is known to the cache only through the two caller-supplied       *)
(* functions; the value domain holds one value per (score, weight) pair.     *)
Values == Scores \X Weights

computeScore(value) == value[1]

computeWeight(value) == value[2]

Nil == 0
NoValue == <<0, 0>>
KeyNotFoundError == "KeyNotFoundError"
LoaderError == "LoaderError"
OtherLoaderError == "OtherLoaderError"
NoError == "nil"

(* ------------------------------------------------------------------------ *)
(* State                                                                     *)
(* ------------------------------------------------------------------------ *)
VARIABLES
    mem,           \* the allocated scoredItem objects: pointer -> fields
    items,         \* ScoreCache.items: key -> pointer (Nil when absent)
    evictList,     \* ScoreCache.evictList: the heap array of pointers
    totalWeight,   \* ScoreCache.totalWeight
    size,          \* baseCache.size: the capacity given to the builder
    hasLoader,     \* whether baseCache.loaderFunc is set
    evictedCalls,  \* (key, value) of each evictedFunc call of the last operation
    addedCalls,    \* (key, value) of each addedFunc call of the last operation
    panicked,      \* a run-time panic has ended the program
    last,          \* the last operation called, its arguments and result
    thr,           \* per calling goroutine: position, arguments, locals, result
    mu,            \* baseCache.mu, the sync.RWMutex of the instance
    gmu,           \* loadGroup.mu: the goroutine holding it, or Nil
    calls,         \* loadGroup.m: key -> goroutine owning the call in flight
    incrHitCount,  \* IncrHitCount() calls made by the last step
    incrMissCount, \* IncrMissCount() calls made by the last step
    loaderCalls,   \* what each loaderFunc(key) call of the last step returned
    elapsed        \* time passed since the last operation returned

conc == <<thr, mu, gmu, calls>>

vars == <<mem, items, evictList, totalWeight, size, hasLoader,
          evictedCalls, addedCalls, panicked, last, thr, mu, gmu, calls,
          incrHitCount, incrMissCount, loaderCalls, elapsed>>

(* ------------------------------------------------------------------------ *)
(* scoredItem and the heap (priorityHeap under container/heap)               *)
(* ------------------------------------------------------------------------ *)
scoredItem(key, value, score, weight) ==
    [key |-> key, value |-> value, score |-> score, weight |-> weight]

newScoredItem(key, value) ==
    scoredItem(key, value, computeScore(value), computeWeight(value))

(* positions are 0-based as in the source; h[i+1] is the Go h[i] *)
At(h, i) == h[i + 1]

Less(m, h, i, j) == m[At(h, i)].score < m[At(h, j)].score

Swap(h, i, j) == [h EXCEPT ![i + 1] = h[j + 1], ![j + 1] = h[i + 1]]

RECURSIVE up(_, _, _)
up(m, h, j) ==
    LET i == IF j = 0 THEN 0 ELSE (j - 1) \div 2
    IN  IF i = j \/ ~Less(m, h, j, i)
        THEN h
        ELSE up(m, Swap(h, i, j), i)

(* down returns the heap and the final position of the element *)
RECURSIVE down(_, _, _, _)
down(m, h, i, n) ==
    LET j1 == 2 * i + 1
        j2 == j1 + 1
        j  == IF j2 < n /\ Less(m, h, j2, j1) THEN j2 ELSE j1
    IN  IF j1 >= n
        THEN [h |-> h, i |-> i]
        ELSE IF ~Less(m, h, j, i)
             THEN [h |-> h, i |-> i]
             ELSE down(m, Swap(h, i, j), j, n)

heapPush(m, h, x) == up(m, Append(h, x), Len(h))

(* heap.Pop on a non-empty heap: the popped pointer and the remaining heap *)
heapPop(m, h) ==
    LET n  == Len(h) - 1
        h2 == down(m, Swap(h, 0, n), 0, n).h
    IN  [item |-> h2[n + 1], h |-> SubSeq(h2, 1, n)]

heapRemove(m, h, i) ==
    LET n  == Len(h) - 1
        h1 == Swap(h, i, n)
        d  == down(m, h1, i, n)
        h2 == IF n = i THEN h
              ELSE IF d.i > i THEN d.h ELSE up(m, d.h, i)
    IN  SubSeq(h2, 1, n)

heapFix(m, h, i) ==
    LET d == down(m, h, i, Len(h))
    IN  IF d.i > i THEN d.h ELSE up(m, d.h, i)

(* getIndex: the first heap position whose entry carries the key, or -1 *)
getIndex(m, h, key) ==
    LET hits == {i \in 0..(Len(h) - 1) : m[At(h, i)].key = key}
    IN  IF hits = {} THEN -1
        ELSE CHOOSE i \in hits : \A j \in hits : i <= j

(* ------------------------------------------------------------------------ *)
(* The cache as a value: what set, evictUntil and Remove read and write      *)
(* ------------------------------------------------------------------------ *)
Cache(m, it, h, tw) ==
    [mem |-> m, items |-> it, evictList |-> h, totalWeight |-> tw]

Current == Cache(mem, items, evictList, totalWeight)

NewPtr(m) == CHOOSE p \in 1..(Cardinality(DOMAIN m) + 1) : p \notin DOMAIN m

(* Pointer values are not observable: after an operation the objects are    *)
(* renamed by their heap position, and objects in neither the heap nor the   *)
(* index are freed (every indexed object is in the heap).                    *)
PosOf(h, p) == CHOOSE i \in 1..Len(h) : h[i] = p

Renamed(c) ==
    Cache([i \in 1..Len(c.evictList) |-> c.mem[c.evictList[i]]],
          [k \in Keys |-> IF c.items[k] = Nil THEN Nil
                           ELSE PosOf(c.evictList, c.items[k])],
          [i \in 1..Len(c.evictList) |-> i],
          c.totalWeight)

(* evictUntil: pops until totalWeight has dropped by w; popping the empty    *)
(* heap is an index-out-of-range panic inside heap.Pop.                      *)
(* variant of the loop of evictUntil that goes on while totalWeight >=       *)
(* targetWeight, one entry further than the source's loop                    *)
RECURSIVE evictLoopInclusive(_, _, _)
evictLoopInclusive(c, targetWeight, evicted) ==
    IF ~(c.totalWeight >= targetWeight)
    THEN [c |-> c, evicted |-> evicted, panic |-> FALSE]
    ELSE IF Len(c.evictList) = 0
         THEN [c |-> c, evicted |-> evicted, panic |-> TRUE]
         ELSE LET p    == heapPop(c.mem, c.evictList)
                  item == c.mem[p.item]
              IN  evictLoopInclusive(
                      Cache(c.mem,
                            [c.items EXCEPT ![item.key] = Nil],
                            p.h,
                            c.totalWeight - item.weight),
                      targetWeight,
                      Append(evicted, <<item.key, item.value>>))

RECURSIVE evictLoop(_, _, _)
evictLoop(c, targetWeight, evicted) ==
    IF ~(c.totalWeight > targetWeight)
    THEN [c |-> c, evicted |-> evicted, panic |-> FALSE]
    ELSE IF Len(c.evictList) = 0
         THEN [c |-> c, evicted |-> evicted, panic |-> TRUE]
         ELSE LET p    == heapPop(c.mem, c.evictList)
                  item == c.mem[p.item]
              IN  evictLoop(
                      Cache(c.mem,
                            [c.items EXCEPT ![item.key] = Nil],
                            p.h,
                            c.totalWeight - item.weight),
                      targetWeight,
                      Append(evicted, <<item.key, item.value>>))

evictUntil(c, w) == evictLoop(c, c.totalWeight - w, <<>>)

(* set: the unlocked body shared by Set and by the loader's commit *)

(* variant of setExisting that adds the new weight without taking the old   *)
(* one off totalWeight                                                       *)
setExistingAddsWeight(c, key, value) ==
    LET ptr == c.items[key]
        m2  == [c.mem EXCEPT ![ptr] = newScoredItem(key, value)]
        tw2 == c.totalWeight + computeWeight(value)
        idx == getIndex(m2, c.evictList, key)
    IN  [c |-> Cache(m2, c.items, heapFix(m2, c.evictList, idx), tw2),
         evicted |-> <<>>, added |-> <<>>, panic |-> FALSE, item |-> ptr]

(* variant of setExisting that also fires the added callback on replacement *)
setExistingAdded(c, key, value) ==
    LET ptr == c.items[key]
        old == c.mem[ptr]
        m2  == [c.mem EXCEPT ![ptr] = newScoredItem(key, value)]
        tw2 == (c.totalWeight - old.weight) + computeWeight(value)
        idx == getIndex(m2, c.evictList, key)
    IN  [c |-> Cache(m2, c.items, heapFix(m2, c.evictList, idx), tw2),
         evicted |-> <<>>, added |-> <<<<key, value>>>>, panic |-> FALSE,
         item |-> ptr]

setExisting(c, key, value) ==
    LET ptr == c.items[key]
        old == c.mem[ptr]
        m2  == [c.mem EXCEPT ![ptr] = newScoredItem(key, value)]
        tw2 == (c.totalWeight - old.weight) + computeWeight(value)
        idx == getIndex(m2, c.evictList, key)
    IN  [c |-> Cache(m2, c.items, heapFix(m2, c.evictList, idx), tw2),
         evicted |-> <<>>, added |-> <<>>, panic |-> FALSE, item |-> ptr]

setNew(c, key, value) ==
    LET item == newScoredItem(key, value)
        ev   == IF c.totalWeight + item.weight > size
                THEN evictUntil(c, item.weight)
                ELSE [c |-> c, evicted |-> <<>>, panic |-> FALSE]
        c1   == ev.c
        ptr  == NewPtr(c1.mem)
        m2   == [p \in (DOMAIN c1.mem) \cup {ptr} |->
                    IF p = ptr THEN item ELSE c1.mem[p]]
    IN  IF ev.panic
        THEN [c |-> c1, evicted |-> ev.evicted, added |-> <<>>,
              panic |-> TRUE, item |-> Nil]
        ELSE [c |-> Cache(m2,
                          [c1.items EXCEPT ![key] = ptr],
                          heapPush(m2, c1.evictList, ptr),
                          c1.totalWeight + item.weight),
              evicted |-> ev.evicted, added |-> <<<<key, value>>>>,
              panic |-> FALSE, item |-> ptr]

set(c, key, value) ==
    IF c.items[key] # Nil
    THEN setExisting(c, key, value)
    ELSE setNew(c, key, value)

(* Remove: the entry is taken off the heap only when found at index > 0 *)
removeIndexOk(index) == index > 0

remove(c, key) ==
    LET ptr   == c.items[key]
        item  == c.mem[ptr]
        it2   == [c.items EXCEPT ![key] = Nil]
        index == getIndex(c.mem, c.evictList, key)
    IN  IF ptr = Nil
        THEN [c |-> c, evicted |-> <<>>, ret |-> FALSE]
        ELSE IF removeIndexOk(index)
             THEN [c |-> Cache(c.mem, it2,
                               heapRemove(c.mem, c.evictList, index),
                               c.totalWeight - item.weight),
                   evicted |-> <<<<item.key, item.value>>>>, ret |-> TRUE]
             ELSE [c |-> Cache(c.mem, it2, c.evictList, c.totalWeight),
                   evicted |-> <<>>, ret |-> FALSE]

(* reset: a fresh heap and a fresh index; totalWeight is not touched *)
reset(c) ==
    Cache(c.mem, [k \in Keys |-> Nil], <<>>, c.totalWeight)

(* ------------------------------------------------------------------------ *)
(* Operations of one caller at a time                                        *)
(* ------------------------------------------------------------------------ *)
Op(op, key, value, ret, ok, err) ==
    [op |-> op, key |-> key, value |-> value, ret |-> ret, ok |-> ok,
     err |-> err]

(* a goroutine between two calls, after `ops` completed calls *)
Idle(ops) ==
    [pc |-> "idle", op |-> "none", key |-> Nil, value |-> NoValue,
     ret |-> NoValue, ok |-> FALSE, err |-> NoError, loaded |-> FALSE,
     added |-> 0, waitOn |-> Nil, got |-> FALSE, ops |-> ops]

Install(c) ==
    \E n \in {Renamed(c)} :
        /\ mem' = n.mem
        /\ items' = n.items
        /\ evictList' = n.evictList
        /\ totalWeight' = n.totalWeight

Init ==
    /\ mem = <<>>
    /\ items = [k \in Keys |-> Nil]
    /\ evictList = <<>>
    /\ totalWeight = 0
    /\ size \in Sizes
    /\ hasLoader \in BOOLEAN
    /\ evictedCalls = <<>>
    /\ addedCalls = <<>>
    /\ panicked = FALSE
    /\ last = Op("New", Nil, NoValue, NoValue, FALSE, NoError)
    /\ thr = [t \in Threads |-> Idle(0)]
    /\ mu = [readers |-> [t \in Threads |-> 0], writer |-> Nil, held |-> FALSE]
    /\ gmu = Nil
    /\ calls = [k \in Keys |-> Nil]
    /\ incrHitCount = 0
    /\ incrMissCount = 0
    /\ loaderCalls = <<>>
    /\ elapsed = 0

(* what the step counted: hits, misses and loaderFunc results; an operation *)
(* that returns restarts the time since the last operation                   *)
Counted(hit, miss, loads) ==
    /\ incrHitCount' = hit
    /\ incrMissCount' = miss
    /\ loaderCalls' = loads
    /\ elapsed' = 0

Set(key, value) ==
    /\ ~panicked
    /\ \E r \in {set(Current, key, value)} :
           /\ Len(r.c.evictList) <= MaxHeap
           /\ Install(r.c)
           /\ evictedCalls' = r.evicted
           /\ addedCalls' = r.added
           /\ panicked' = r.panic
           /\ last' = Op("Set", key, value, NoValue, FALSE, NoError)
    /\ Counted(0, 0, <<>>)
    /\ UNCHANGED <<size, hasLoader, conc>>

Remove(key) ==
    /\ ~panicked
    /\ \E r \in {remove(Current, key)} :
           /\ Install(r.c)
           /\ evictedCalls' = r.evicted
           /\ last' = Op("Remove", key, NoValue, NoValue, r.ret, NoError)
    /\ addedCalls' = <<>>
    /\ Counted(0, 0, <<>>)
    /\ UNCHANGED <<size, hasLoader, panicked, conc>>

Purge ==
    /\ ~panicked
    /\ Install(reset(Current))
    /\ evictedCalls' = <<>>
    /\ addedCalls' = <<>>
    /\ last' = Op("Purge", Nil, NoValue, NoValue, FALSE, NoError)
    /\ Counted(0, 0, <<>>)
    /\ UNCHANGED <<size, hasLoader, panicked, conc>>

(* what loaderFunc may hand back: any value, or an error *)
LoaderResults ==
    {[value |-> v, err |-> NoError] : v \in Values}
        \cup {[value |-> NoValue, err |-> e] :
                  e \in {LoaderError, OtherLoaderError}}

(* getItem: the indexed object, or KeyNotFoundError *)
getItem(c, key) ==
    IF c.items[key] = Nil
    THEN [item |-> Nil, err |-> KeyNotFoundError]
    ELSE [item |-> c.items[key], err |-> NoError]

Quiet(op, hit, miss, loads) ==
    /\ evictedCalls' = <<>>
    /\ addedCalls' = <<>>
    /\ last' = op
    /\ Counted(hit, miss, loads)
    /\ UNCHANGED <<mem, items, evictList, totalWeight, size, hasLoader,
                   panicked, conc>>

(* Get with the key present: the stored value *)
GetHit(key) ==
    /\ ~panicked
    /\ getItem(Current, key).err = NoError
    /\ Quiet(Op("Get", key, NoValue, mem[items[key]].value, FALSE, NoError),
             1, 0, <<>>)

(* Get with the key absent and no loaderFunc: getWithLoader gives up *)
GetMiss(key) ==
    /\ ~panicked
    /\ getItem(Current, key).err # NoError
    /\ ~hasLoader
    /\ Quiet(Op("Get", key, NoValue, NoValue, FALSE, KeyNotFoundError),
             0, 1, <<>>)

(* variant of GetLoad whose callback commits through set whatever the       *)
(* producer returned, its error included                                     *)
GetLoadCommitsError(key, res) ==
    /\ ~panicked
    /\ getItem(Current, key).err # NoError
    /\ hasLoader
    /\ \E r \in {set(Current, key, res.value)} :
           /\ Len(r.c.evictList) <= MaxHeap
           /\ Install(r.c)
           /\ evictedCalls' = r.evicted
           /\ addedCalls' = r.added
           /\ panicked' = r.panic
           /\ last' = Op("Get", key, NoValue,
                         IF r.panic \/ res.err # NoError THEN NoValue
                         ELSE res.value,
                         FALSE, res.err)
           /\ Counted(0, 2, <<res>>)
           /\ UNCHANGED <<size, hasLoader, conc>>

(* Get with the key absent and a loaderFunc: getItem counts the miss, the    *)
(* load path looks the key up again through get(key, true), which counts it  *)
(* a second time, then loaderFunc runs; the loaded value is committed        *)
(* through set, a loader error is handed back                                *)
GetLoad(key, res) ==
    /\ ~panicked
    /\ getItem(Current, key).err # NoError
    /\ hasLoader
    /\ IF res.err # NoError
       THEN Quiet(Op("Get", key, NoValue, NoValue, FALSE, res.err),
                  0, 2, <<res>>)
       ELSE \E r \in {set(Current, key, res.value)} :
                /\ Len(r.c.evictList) <= MaxHeap
                /\ Install(r.c)
                /\ evictedCalls' = r.evicted
                /\ addedCalls' = r.added
                /\ panicked' = r.panic
                /\ last' = Op("Get", key, NoValue,
                              IF r.panic THEN NoValue ELSE res.value,
                              FALSE, NoError)
                /\ Counted(0, 2, <<res>>)
                /\ UNCHANGED <<size, hasLoader, conc>>

(* variant of GetIFPresent that, like Get, turns to the loaderFunc on a miss *)
GetIFPresentLoads(key) ==
    /\ ~panicked
    /\ \E g \in {getItem(Current, key)} :
           IF g.err = NoError \/ ~hasLoader
           THEN Quiet(Op("GetIFPresent", key, NoValue,
                         IF g.item # Nil THEN mem[g.item].value ELSE NoValue,
                         FALSE, g.err),
                      IF g.err = NoError THEN 1 ELSE 0,
                      IF g.err = NoError THEN 0 ELSE 1,
                      <<>>)
           ELSE \E res \in LoaderResults :
                    Quiet(Op("GetIFPresent", key, NoValue, res.value, FALSE,
                             res.err),
                          0, 1, <<res>>)

GetIFPresent(key) ==
    /\ ~panicked
    /\ LET g == getItem(Current, key)
       IN  Quiet(Op("GetIFPresent", key, NoValue,
                    IF g.item # Nil THEN mem[g.item].value ELSE NoValue,
                    FALSE, g.err),
                 IF g.err = NoError THEN 1 ELSE 0,
                 IF g.err = NoError THEN 0 ELSE 1,
                 <<>>)

Next ==
    \/ \E key \in Keys, value \in Values : Set(key, value)
    \/ \E key \in Keys : Remove(key)
    \/ Purge
    \/ \E key \in Keys : GetHit(key)
    \/ \E key \in Keys : GetMiss(key)
    \/ \E key \in Keys, res \in LoaderResults : GetLoad(key, res)
    \/ \E key \in Keys : GetIFPresent(key)

Spec == Init /\ [][Next]_vars

(* The cache is built with Expiration(expiration); time passes between two  *)
(* operations, up to beyond that duration.  No operation reads the clock.    *)
expiration == MaxElapsed - 1

Tick ==
    /\ ~panicked
    /\ elapsed < MaxElapsed
    /\ elapsed' = elapsed + 1
    /\ UNCHANGED <<mem, items, evictList, totalWeight, size, hasLoader,
                   evictedCalls, addedCalls, panicked, last, conc,
                   incrHitCount, incrMissCount, loaderCalls>>

NextExp ==
    \/ \E key \in Keys, value \in Values : Set(key, value)
    \/ \E key \in Keys : GetHit(key)
    \/ \E key \in Keys : GetMiss(key)
    \/ \E key \in Keys, res \in LoaderResults : GetLoad(key, res)
    \/ \E key \in Keys : GetIFPresent(key)
    \/ Tick

SpecExp == Init /\ [][NextExp]_vars

(* Histories that fill the cache: Set calls on keys never used before (in   *)
(* the order 1, 2, ..), every value with the same weight, a divisor of the   *)
(* capacity                                                                  *)
SetDistinct(key, value) ==
    /\ key = last.key + 1
    /\ last.op = "Set" => computeWeight(value) = computeWeight(last.value)
    /\ size % computeWeight(value) = 0
    /\ Set(key, value)

NextFill == \E key \in Keys, value \in Values : SetDistinct(key, value)

SpecFill == Init /\ [][NextFill]_vars

(* Histories of Set and Remove calls on a cache of capacity MaxSize + 1,    *)
(* every value of weight 1: the heap grows to three entries                  *)
InitHeap ==
    /\ mem = <<>>
    /\ items = [k \in Keys |-> Nil]
    /\ evictList = <<>>
    /\ totalWeight = 0
    /\ size = MaxSize + 1
    /\ hasLoader = FALSE
    /\ evictedCalls = <<>>
    /\ addedCalls = <<>>
    /\ panicked = FALSE
    /\ last = Op("New", Nil, NoValue, NoValue, FALSE, NoError)
    /\ thr = [t \in Threads |-> Idle(0)]
    /\ mu = [readers |-> [t \in Threads |-> 0], writer |-> Nil, held |-> FALSE]
    /\ gmu = Nil
    /\ calls = [k \in Keys |-> Nil]
    /\ incrHitCount = 0
    /\ incrMissCount = 0
    /\ loaderCalls = <<>>
    /\ elapsed = 0

SetUnit(key, value) ==
    /\ computeWeight(value) = 1
    /\ Set(key, value)

NextHeap ==
    \/ \E key \in Keys, value \in Values : SetUnit(key, value)
    \/ \E key \in Keys : Remove(key)

SpecHeap == InitHeap /\ [][NextHeap]_vars

(* Histories made of Set calls only *)
NextSet == \E key \in Keys, value \in Values : Set(key, value)

SpecSet == Init /\ [][NextSet]_vars

(* ------------------------------------------------------------------------ *)
(* Concurrent callers                                                        *)
(*                                                                           *)
(* Each goroutine issues up to MaxOps calls; a call advances one step at a   *)
(* time.  baseCache.mu is a sync.RWMutex: a writer that has called Lock      *)
(* keeps later RLock calls waiting until it has held and released the lock.  *)
(* ------------------------------------------------------------------------ *)
At2(t, pc) == thr[t].pc = pc

Goto(t, pc) == thr' = [thr EXCEPT ![t].pc = pc]

CanRLock == mu.writer = Nil

RLocked(t) == [mu EXCEPT !.readers[t] = @ + 1]

RUnlocked(t) == [mu EXCEPT !.readers[t] = @ - 1]

NoReaders == \A t \in Threads : mu.readers[t] = 0

HoldsRead(t) == mu.readers[t] > 0

HoldsWrite(t) == mu.writer = t /\ mu.held

(* the call returns: the goroutine keeps its result until its next call *)
Return(t) == [thr[t] EXCEPT !.pc = "idle", !.ops = @ + 1]

CacheVars == <<mem, items, evictList, totalWeight>>

Frame == <<size, hasLoader, last>>

(* a goroutine is inside the set called by the callback of getWithLoader *)
InSet(t) == At2(t, "In_set")

(* a goroutine reads or writes sc.items while another one is inside that set *)
Racing(t) ==
    /\ thr[t].pc \in {"Get_getItem", "Do_get", "In_set"}
    /\ \E u \in Threads \ {t} : InSet(u)

(* the call is made: Get, Set, Remove or Purge *)
Call(t, op, key, value) ==
    /\ ~panicked
    /\ Counted(0, 0, <<>>)
    /\ At2(t, "idle")
    /\ thr[t].ops < MaxOps
    /\ thr' = [thr EXCEPT ![t] =
                 [Idle(thr[t].ops) EXCEPT
                     !.pc = IF op = "Get" THEN "Get_RLock" ELSE "Lock",
                     !.op = op, !.key = key, !.value = value]]
    /\ UNCHANGED <<CacheVars, Frame, evictedCalls, addedCalls, panicked,
                   mu, gmu, calls>>

(* Get: sc.mu.RLock(), kept until Get returns (defer sc.mu.RUnlock()) *)
GetRLock(t) ==
    /\ ~panicked
    /\ Counted(0, 0, <<>>)
    /\ At2(t, "Get_RLock")
    /\ CanRLock
    /\ mu' = RLocked(t)
    /\ Goto(t, "Get_getItem")
    /\ UNCHANGED <<CacheVars, Frame, evictedCalls, addedCalls, panicked,
                   gmu, calls>>

(* Get: getItem; a hit returns the value, a miss goes to getWithLoader *)
GetItem(t) ==
    /\ ~panicked
    /\ At2(t, "Get_getItem")
    /\ LET g == getItem(Current, thr[t].key)
       IN  Counted(IF g.err = NoError THEN 1 ELSE 0,
                   IF g.err = NoError THEN 0 ELSE 1, <<>>)
    /\ LET g == getItem(Current, thr[t].key)
       IN  thr' = [thr EXCEPT ![t] =
                IF g.err = NoError
                THEN [@ EXCEPT !.pc = "Get_RUnlock",
                               !.ret = mem[g.item].value]
                ELSE IF ~hasLoader
                     THEN [@ EXCEPT !.pc = "Get_RUnlock",
                                    !.err = KeyNotFoundError]
                     ELSE [@ EXCEPT !.pc = "Do_Lock"]]
    /\ UNCHANGED <<CacheVars, Frame, evictedCalls, addedCalls, panicked,
                   mu, gmu, calls>>

(* Group.Do: g.mu.Lock() *)
DoLock(t) ==
    /\ ~panicked
    /\ Counted(0, 0, <<>>)
    /\ At2(t, "Do_Lock")
    /\ gmu = Nil
    /\ gmu' = t
    /\ Goto(t, "Do_RLock")
    /\ UNCHANGED <<CacheVars, Frame, evictedCalls, addedCalls, panicked,
                   mu, calls>>

(* Group.Do looks the key up through ScoreCache.get: a second RLock *)
DoRLock(t) ==
    /\ ~panicked
    /\ Counted(0, 0, <<>>)
    /\ At2(t, "Do_RLock")
    /\ CanRLock
    /\ mu' = RLocked(t)
    /\ Goto(t, "Do_get")
    /\ UNCHANGED <<CacheVars, Frame, evictedCalls, addedCalls, panicked,
                   gmu, calls>>

(* Group.Do: the lookup (get runs getItem and drops its read lock), then    *)
(* the cached value, the call in flight, or a call of its own               *)
DoGet(t) ==
    /\ ~panicked
    /\ At2(t, "Do_get")
    /\ LET g == getItem(Current, thr[t].key)
       IN  Counted(IF g.err = NoError THEN 1 ELSE 0,
                   IF g.err = NoError THEN 0 ELSE 1, <<>>)
    /\ mu' = RUnlocked(t)
    /\ gmu' = Nil
    /\ LET key == thr[t].key
           g   == getItem(Current, key)
       IN  IF g.err = NoError
           THEN /\ thr' = [thr EXCEPT ![t].pc = "Get_RUnlock",
                                      ![t].ret = mem[g.item].value]
                /\ UNCHANGED calls
           ELSE IF calls[key] # Nil
                THEN /\ thr' = [thr EXCEPT ![t].pc = "Do_Wait",
                                           ![t].waitOn = calls[key]]
                     /\ UNCHANGED calls
                ELSE /\ thr' = [thr EXCEPT ![t].pc = "Load_fn"]
                     /\ calls' = [calls EXCEPT ![key] = t]
    /\ UNCHANGED <<CacheVars, Frame, evictedCalls, addedCalls, panicked>>

(* the call runs fn: loaderFunc(key) returns a value or an error *)
LoadFn(t, res) ==
    /\ ~panicked
    /\ Counted(0, 0, <<res>>)
    /\ At2(t, "Load_fn")
    /\ thr' = [thr EXCEPT ![t] =
                 [@ EXCEPT !.pc = IF res.err = NoError THEN "Load_set"
                                  ELSE "Call_Done",
                           !.loaded = TRUE, !.value = res.value,
                           !.err = res.err]]
    /\ UNCHANGED <<CacheVars, Frame, evictedCalls, addedCalls, panicked,
                   mu, gmu, calls>>

(* the callback of getWithLoader enters sc.set(key, v), with no Lock taken *)
LoadSetEnter(t) ==
    /\ ~panicked
    /\ Counted(0, 0, <<>>)
    /\ At2(t, "Load_set")
    /\ Goto(t, "In_set")
    /\ UNCHANGED <<CacheVars, Frame, evictedCalls, addedCalls, panicked,
                   mu, gmu, calls>>

(* sc.set(key, v) of the callback: its effect on the cache *)
LoadSet(t) ==
    /\ ~panicked
    /\ Counted(0, 0, <<>>)
    /\ At2(t, "In_set")
    /\ \E r \in {set(Current, thr[t].key, thr[t].value)} :
           /\ Len(r.c.evictList) <= MaxHeap
           /\ Install(r.c)
           /\ evictedCalls' = r.evicted
           /\ addedCalls' = r.added
           /\ panicked' = r.panic
           /\ thr' = IF r.panic THEN thr
                     ELSE [thr EXCEPT ![t].pc = "Call_Done",
                                      ![t].added = @ + Len(r.added),
                                      ![t].ret = r.c.mem[r.item].value]
    /\ UNCHANGED <<Frame, mu, gmu, calls>>

(* Unsynchronised access to the map sc.items while another goroutine writes *)
(* it: the Go runtime may stop the program ("fatal error: concurrent map    *)
(* read and map write", "concurrent map writes"); otherwise the access      *)
(* takes effect as one step, before or after the other one.                 *)
Race(t) ==
    /\ ~panicked
    /\ Counted(0, 0, <<>>)
    /\ Racing(t)
    /\ panicked' = TRUE
    /\ UNCHANGED <<CacheVars, Frame, evictedCalls, addedCalls, conc>>

(* Group.call: c.wg.Done() hands val and err to every waiter of the call *)
CallDone(t) ==
    /\ ~panicked
    /\ Counted(0, 0, <<>>)
    /\ At2(t, "Call_Done")
    /\ thr' = [u \in Threads |->
                 IF u = t THEN [thr[u] EXCEPT !.pc = "Call_Del"]
                 ELSE IF thr[u].pc = "Do_Wait" /\ thr[u].waitOn = t
                      THEN [thr[u] EXCEPT !.got = TRUE, !.ret = thr[t].ret,
                                          !.err = thr[t].err]
                      ELSE thr[u]]
    /\ UNCHANGED <<CacheVars, Frame, evictedCalls, addedCalls, panicked,
                   mu, gmu, calls>>

(* Group.call: g.mu.Lock(); delete(g.m, key); g.mu.Unlock() *)
CallDel(t) ==
    /\ ~panicked
    /\ Counted(0, 0, <<>>)
    /\ At2(t, "Call_Del")
    /\ gmu = Nil
    /\ calls' = [calls EXCEPT ![thr[t].key] = Nil]
    /\ Goto(t, "Get_RUnlock")
    /\ UNCHANGED <<CacheVars, Frame, evictedCalls, addedCalls, panicked,
                   mu, gmu>>

(* Group.Do: c.wg.Wait() returns once the owner of the call is done *)
DoWait(t) ==
    /\ ~panicked
    /\ Counted(0, 0, <<>>)
    /\ At2(t, "Do_Wait")
    /\ thr[t].got
    /\ Goto(t, "Get_RUnlock")
    /\ UNCHANGED <<CacheVars, Frame, evictedCalls, addedCalls, panicked,
                   mu, gmu, calls>>

(* Get returns: the deferred sc.mu.RUnlock() *)
GetRUnlock(t) ==
    /\ ~panicked
    /\ Counted(0, 0, <<>>)
    /\ At2(t, "Get_RUnlock")
    /\ mu' = RUnlocked(t)
    /\ thr' = [thr EXCEPT ![t] = Return(t)]
    /\ UNCHANGED <<CacheVars, Frame, evictedCalls, addedCalls, panicked,
                   gmu, calls>>

(* sc.mu.Lock(): the writer announces itself, then waits for the readers *)
Lock(t) ==
    /\ ~panicked
    /\ Counted(0, 0, <<>>)
    /\ At2(t, "Lock")
    /\ mu.writer = Nil
    /\ mu' = [mu EXCEPT !.writer = t]
    /\ Goto(t, "Lock_wait")
    /\ UNCHANGED <<CacheVars, Frame, evictedCalls, addedCalls, panicked,
                   gmu, calls>>

LockAcquire(t) ==
    /\ ~panicked
    /\ Counted(0, 0, <<>>)
    /\ At2(t, "Lock_wait")
    /\ NoReaders
    /\ mu' = [mu EXCEPT !.held = TRUE]
    /\ Goto(t, "Locked")
    /\ UNCHANGED <<CacheVars, Frame, evictedCalls, addedCalls, panicked,
                   gmu, calls>>

Unlocked == [mu EXCEPT !.writer = Nil, !.held = FALSE]

(* Set under the write lock: set, then the deferred Unlock *)
SetLocked(t) ==
    /\ ~panicked
    /\ Counted(0, 0, <<>>)
    /\ At2(t, "Locked")
    /\ thr[t].op = "Set"
    /\ \E r \in {set(Current, thr[t].key, thr[t].value)} :
           /\ Len(r.c.evictList) <= MaxHeap
           /\ Install(r.c)
           /\ evictedCalls' = r.evicted
           /\ addedCalls' = r.added
           /\ panicked' = r.panic
           /\ thr' = IF r.panic THEN thr
                     ELSE [thr EXCEPT ![t] =
                             [Return(t) EXCEPT !.added = @ + Len(r.added)]]
           /\ mu' = IF r.panic THEN mu ELSE Unlocked
    /\ UNCHANGED <<Frame, gmu, calls>>

RemoveLocked(t) ==
    /\ ~panicked
    /\ Counted(0, 0, <<>>)
    /\ At2(t, "Locked")
    /\ thr[t].op = "Remove"
    /\ \E r \in {remove(Current, thr[t].key)} :
           /\ Install(r.c)
           /\ evictedCalls' = r.evicted
           /\ thr' = [thr EXCEPT ![t] = [Return(t) EXCEPT !.ok = r.ret]]
    /\ addedCalls' = <<>>
    /\ mu' = Unlocked
    /\ UNCHANGED <<Frame, panicked, gmu, calls>>

PurgeLocked(t) ==
    /\ ~panicked
    /\ Counted(0, 0, <<>>)
    /\ At2(t, "Locked")
    /\ thr[t].op = "Purge"
    /\ Install(reset(Current))
    /\ evictedCalls' = <<>>
    /\ addedCalls' = <<>>
    /\ thr' = [thr EXCEPT ![t] = Return(t)]
    /\ mu' = Unlocked
    /\ UNCHANGED <<Frame, panicked, gmu, calls>>

NextConc ==
    \/ \E t \in Threads, key \in Keys : Call(t, "Get", key, NoValue)
    \/ \E t \in Threads, key \in Keys, value \in Values :
           Call(t, "Set", key, value)
    \/ \E t \in Threads, key \in Keys : Call(t, "Remove", key, NoValue)
    \/ \E t \in Threads : Call(t, "Purge", Nil, NoValue)
    \/ \E t \in Threads : GetRLock(t)
    \/ \E t \in Threads : GetItem(t)
    \/ \E t \in Threads : DoLock(t)
    \/ \E t \in Threads : DoRLock(t)
    \/ \E t \in Threads : DoGet(t)
    \/ \E t \in Threads, res \in LoaderResults : LoadFn(t, res)
    \/ \E t \in Threads : LoadSetEnter(t)
    \/ \E t \in Threads : LoadSet(t)
    \/ \E t \in Threads : Race(t)
    \/ \E t \in Threads : CallDone(t)
    \/ \E t \in Threads : CallDel(t)
    \/ \E t \in Threads : DoWait(t)
    \/ \E t \in Threads : GetRUnlock(t)
    \/ \E t \in Threads : Lock(t)
    \/ \E t \in Threads : LockAcquire(t)
    \/ \E t \in Threads : SetLocked(t)
    \/ \E t \in Threads : RemoveLocked(t)
    \/ \E t \in Threads : PurgeLocked(t)

SpecConc == Init /\ [][NextConc]_vars

(* ------------------------------------------------------------------------ *)
(* Observations                                                              *)
(* ------------------------------------------------------------------------ *)
Live == {k \in Keys : items[k] # Nil}

RECURSIVE SumWeight(_)
SumWeight(ks) ==
    IF ks = {} THEN 0
    ELSE LET k == CHOOSE x \in ks : TRUE
         IN  mem[items[k]].weight + SumWeight(ks \ {k})

HeapKeys == {mem[evictList[i]].key : i \in 1..Len(evictList)}

HeapCount(k) == Cardinality({i \in 1..Len(evictList) : mem[evictList[i]].key = k})

DistinctScores ==
    \A k1, k2 \in Live :
        k1 # k2 => mem[items[k1]].score # mem[items[k2]].score

(* the step just taken was Set(key, value) on a key that was not live *)
SetNewStep == last'.op = "Set" /\ items[last'.key] = Nil

EvictedKeys(n) == {evictedCalls'[j][1] : j \in 1..n}

(* ------------------------------------------------------------------------ *)
(* Claims                                                                    *)
(* ------------------------------------------------------------------------ *)

(* C1: in every reachable state totalWeight equals the sum of the weights   *)
(* of the entries in the items index.                                        *)
C1_TotalWeightIsSum == totalWeight = SumWeight(Live)

(* C2: in every reachable state the keys of the items index are the keys    *)
(* held in the eviction heap, each of them exactly once in the heap.         *)
C2_IndexMatchesHeap ==
    /\ HeapKeys = Live
    /\ \A k \in Live : HeapCount(k) = 1

(* C3: after each call of a sequence of Set calls, totalWeight <= capacity  *)
(* or the cache holds exactly one entry.                                     *)
C3_CapacityInvariant ==
    totalWeight <= size \/ Cardinality(Live) = 1

(* C4: when a Set of a new key forces eviction and the live entries have    *)
(* pairwise distinct scores, every eviction step removes exactly one live    *)
(* entry, the one with the lowest score among those live at that step.       *)
C4_LowestScoreEvictedFirst ==
    [][(SetNewStep /\ evictedCalls' # <<>> /\ Live # {} /\ DistinctScores)
        => \A i \in 1..Len(evictedCalls') :
              LET rest == Live \ EvictedKeys(i - 1)
                  call == evictedCalls'[i]
              IN  /\ call[1] \in rest
                  /\ call[2] = mem[items[call[1]]].value
                  /\ \A k \in rest :
                        mem[items[call[1]]].score <= mem[items[k]].score]_vars

(* C5: every mutation of the index, the heap or totalWeight, the commit of  *)
(* a loaded value included, is made by a goroutine holding the write lock,   *)
(* and two goroutines are never inside set at the same time.                 *)
Mutating(t) == InSet(t) \/ At2(t, "Locked")

C5_MutationUnderWriteLock ==
    /\ \A t \in Threads : Mutating(t) => HoldsWrite(t)
    /\ \A t, u \in Threads : (Mutating(t) /\ Mutating(u)) => t = u

(* C6: concurrent Get calls of all goroutines for one absent key, with a    *)
(* producer that succeeds: the producer runs exactly once, every call        *)
(* returns the same value and exactly one added callback results.            *)
FirstGet(t, key) ==
    /\ thr[t].op = "Get"
    /\ thr[t].key = key
    /\ thr[t].err = NoError

Returned(t) == At2(t, "idle") /\ thr[t].ops = 1

RECURSIVE SumAdded(_)
SumAdded(ts) ==
    IF ts = {} THEN 0
    ELSE LET t == CHOOSE x \in ts : TRUE
         IN  thr[t].added + SumAdded(ts \ {t})

SameGets == \E key \in Keys : \A t \in Threads : FirstGet(t, key)

OneLoadOneValue ==
    (\A t \in Threads : Returned(t))
        => /\ Cardinality({t \in Threads : thr[t].loaded}) = 1
           /\ \A t, u \in Threads : thr[t].ret = thr[u].ret
           /\ \A t \in Threads : thr[t].ret # NoValue
           /\ SumAdded(Threads) = 1

C6_SingleLoad ==
    (hasLoader /\ SameGets) => (~panicked /\ OneLoadOneValue)

(* C7: while the producer of a Get miss runs, the calling goroutine holds   *)
(* the instance lock neither shared nor exclusive, so no Set, Remove or      *)
(* Purge waits for the lock because of a running producer.                   *)
ProducerRuns(t) == At2(t, "Load_fn")

C7_NoLockWhileProducerRuns ==
    /\ \A t \in Threads :
          ProducerRuns(t) => (~HoldsRead(t) /\ ~HoldsWrite(t))
    /\ \A t, u \in Threads :
          (ProducerRuns(t) /\ At2(u, "Lock_wait")) => ~HoldsRead(t)

(* C8: every Set call completes without a panic: evictUntil never pops the  *)
(* empty heap.                                                               *)
C8_SetNeverPanics == ~(panicked /\ last.op = "Set")

(* C9: a Set of a new key whose weight exceeds the capacity evicts every    *)
(* live entry, with one evicted callback each, and admits the new item:      *)
(* afterwards the cache holds that entry alone and totalWeight is its weight.*)
C9_OverweightAdmitted ==
    [][(SetNewStep /\ computeWeight(last'.value) > size)
        => /\ ~panicked'
           /\ Live' = {last'.key}
           /\ totalWeight' = computeWeight(last'.value)
           /\ Len(evictedCalls') = Cardinality(Live)
           /\ EvictedKeys(Len(evictedCalls')) = Live]_vars

(* C10: Remove(key) returns true exactly when the key was live; a live key  *)
(* is gone afterwards and Len is one less; on an absent key the index, the   *)
(* heap and totalWeight are unchanged.                                       *)
C10_RemoveReportsLiveness ==
    [][last'.op = "Remove"
        => LET key == last'.key
           IN  /\ last'.ok <=> (items[key] # Nil)
               /\ items[key] # Nil
                    => /\ items'[key] = Nil
                       /\ Cardinality(Live') = Cardinality(Live) - 1
               /\ items[key] = Nil
                    => UNCHANGED <<mem, items, evictList, totalWeight>>]_vars

(* C11: after Purge the cache has no live entry, the heap is empty and      *)
(* totalWeight is zero, as on a freshly built cache.                         *)
C11_PurgeResets ==
    last.op = "Purge"
        => /\ Live = {}
           /\ evictList = <<>>
           /\ totalWeight = 0

(* C12: Purge fires no evicted callback, whereas each Remove of a live key  *)
(* fires the evicted callback exactly once, with the key and the value of    *)
(* the entry removed, so that removing n entries fires it n times.           *)
C12_PurgeSilentRemoveCallsBack ==
    [][/\ last'.op = "Purge" => evictedCalls' = <<>>
       /\ (last'.op = "Remove" /\ items[last'.key] # Nil)
            => evictedCalls' =
                   <<<<last'.key, mem[items[last'.key]].value>>>>]_vars

(* C13: Set(k, v) completes, and a Get(k) or GetIFPresent(k) issued right   *)
(* after it returns v with no error, whether k was new or live before and    *)
(* whether or not the Set evicted other entries.                             *)
C13_SetThenGetRoundTrip ==
    [][/\ last'.op = "Set" => ~panicked'
       /\ (/\ last.op = "Set"
           /\ last'.op \in {"Get", "GetIFPresent"}
           /\ last'.key = last.key)
            => /\ last'.ret = last.value
               /\ last'.err = NoError]_vars

(* C14: a Set fires the added callback exactly once, with its key and       *)
(* value, when it admits a key that was not live, and not at all when the    *)
(* key was live already: on every Set step the added callbacks are the       *)
(* first-time admissions of that step.                                       *)
C14_AddedOncePerAdmission ==
    [][last'.op = "Set"
        => LET key == last'.key
           IN  /\ items[key] # Nil => addedCalls' = <<>>
               /\ (items[key] = Nil /\ ~panicked')
                    => /\ items'[key] # Nil
                       /\ addedCalls' = <<<<key, last'.value>>>>
               /\ Len(addedCalls') = Cardinality(Live' \ Live)]_vars

(* a Set has just admitted a key that was not live before, after evicting *)
C14_Witness ==
    /\ last.op = "Set"
    /\ addedCalls = <<<<last.key, last.value>>>>
    /\ evictedCalls # <<>>
    /\ Cardinality(Live) = 2

(* C15: each Get or GetIFPresent call increments exactly one of HitCount    *)
(* and MissCount, by one: HitCount when the key is live, MissCount when it   *)
(* is not, also when a producer then serves the miss; Set, Remove and Purge  *)
(* increment neither.                                                        *)
C15_OneCountPerLookup ==
    [][/\ last'.op \in {"Get", "GetIFPresent"}
            => /\ incrHitCount' + incrMissCount' = 1
               /\ incrHitCount' = 1 <=> items[last'.key] # Nil
       /\ last'.op \in {"Set", "Remove", "Purge"}
            => /\ incrHitCount' = 0
               /\ incrMissCount' = 0]_vars

(* C16: when the producer returns an error for a Get on an absent key, Get  *)
(* returns that same error and creates no entry (index, heap and totalWeight *)
(* unchanged, no added callback); the next Get for the key runs the producer *)
(* again.                                                                    *)
LoaderFailed == loaderCalls # <<>> /\ loaderCalls[1].err # NoError

C16_LoaderErrorPropagated ==
    [][/\ (last'.op = "Get" /\ LoaderFailed')
            => /\ last'.err = loaderCalls'[1].err
               /\ last'.ret = NoValue
               /\ UNCHANGED <<mem, items, evictList, totalWeight>>
               /\ addedCalls' = <<>>
       /\ (/\ last.op = "Get" /\ LoaderFailed
           /\ last'.op = "Get" /\ last'.key = last.key)
            => Len(loaderCalls') = 1]_vars

(* a Get has just handed back the error of its producer, with entries live *)
C16_Witness ==
    /\ last.op = "Get"
    /\ LoaderFailed
    /\ last.err = OtherLoaderError
    /\ Live # {}

(* C17: GetIFPresent on an absent key returns KeyNotFoundError, runs no     *)
(* producer even when one is configured, and leaves the index, the heap and  *)
(* totalWeight unchanged; so does Get on an absent key when no producer is   *)
(* configured.                                                               *)
C17_MissWithoutLoad ==
    [][(/\ \/ last'.op = "GetIFPresent"
           \/ last'.op = "Get" /\ ~hasLoader
        /\ items[last'.key] = Nil)
        => /\ last'.err = KeyNotFoundError
           /\ last'.ret = NoValue
           /\ loaderCalls' = <<>>
           /\ addedCalls' = <<>>
           /\ UNCHANGED <<mem, items, evictList, totalWeight>>]_vars

(* GetIFPresent has just missed on a cache that has a producer and entries *)
C17_Witness ==
    /\ last.op = "GetIFPresent"
    /\ last.err = KeyNotFoundError
    /\ hasLoader
    /\ Live # {}

(* C18: a Get on an absent key whose producer succeeds returns the produced *)
(* value and leaves the key live with that value (Len counts it); a Get or   *)
(* GetIFPresent of the key right after returns the value without running     *)
(* the producer again.                                                       *)
LoaderSucceeded == loaderCalls # <<>> /\ loaderCalls[1].err = NoError

C18_LoadedValueIsLive ==
    [][/\ (last'.op = "Get" /\ LoaderSucceeded')
            => /\ ~panicked'
               /\ last'.err = NoError
               /\ last'.ret = loaderCalls'[1].value
               /\ items'[last'.key] # Nil
               /\ mem'[items'[last'.key]].value = loaderCalls'[1].value
               /\ last'.key \in Live'
       /\ (/\ last.op = "Get" /\ LoaderSucceeded
           /\ last'.op \in {"Get", "GetIFPresent"}
           /\ last'.key = last.key)
            => /\ loaderCalls' = <<>>
               /\ last'.err = NoError
               /\ last'.ret = loaderCalls[1].value]_vars

(* C19: with an expiration duration configured, an entry is treated as      *)
(* absent by a Get or GetIFPresent issued more than that duration after it   *)
(* was written: the lookup misses with KeyNotFoundError or reloads through   *)
(* the producer.                                                             *)
WroteKey ==
    /\ ~panicked
    /\ \/ last.op = "Set"
       \/ last.op = "Get" /\ LoaderSucceeded

C19_ExpiredEntryIsAbsent ==
    [][(/\ WroteKey
        /\ elapsed > expiration
        /\ last'.op \in {"Get", "GetIFPresent"}
        /\ last'.key = last.key)
        => \/ last'.err = KeyNotFoundError
           \/ loaderCalls' # <<>>]_vars

(* C20: with a constant weight w that divides the capacity C, after Set of  *)
(* n > C/w distinct keys into an empty cache exactly C/w entries are live,   *)
(* totalWeight = C, and n - C/w entries have been evicted, one by each Set   *)
(* made on the full cache (the first C/w Sets evict nothing).                *)
C20_FillLeavesCapacity ==
    last.op = "Set"
        => LET n    == last.key
               w    == computeWeight(last.value)
               room == size \div w
           IN  /\ ~panicked
               /\ n <= room
                    => /\ Cardinality(Live) = n
                       /\ totalWeight = n * w
                       /\ evictedCalls = <<>>
               /\ n > room
                    => /\ Cardinality(Live) = room
                       /\ totalWeight = size
                       /\ Len(evictedCalls) = 1
                       /\ Cardinality({k \in 1..n : k \notin Live})
                              = n - room

(* every key has been Set and the cache, of room for fewer, has evicted *)
C20_Witness ==
    /\ last.op = "Set"
    /\ last.key = NumKeys
    /\ size \div computeWeight(last.value) = 2
    /\ Cardinality(Live) = 2
    /\ totalWeight = size
    /\ evictedCalls # <<>>

(* C21: when a Set of a new key of weight w triggers eviction, the eviction *)
(* stops at the first point where totalWeight + w <= capacity or the working *)
(* set is empty: afterwards the item fits or is alone, and before the last   *)
(* eviction it did not fit.                                                  *)
EvictionTriggered ==
    /\ SetNewStep
    /\ totalWeight + computeWeight(last'.value) > size

C21_EvictionStopsWhenItFits ==
    [][EvictionTriggered
        => /\ ~panicked'
           /\ \/ totalWeight' <= size
              \/ Live' = {last'.key}
           /\ evictedCalls' # <<>>
                => totalWeight'
                     + computeWeight(evictedCalls'[Len(evictedCalls')][2])
                   > size]_vars

(* C22: a Set on a key that is already live replaces its value, recomputes  *)
(* its score and weight, changes totalWeight by exactly the new weight minus *)
(* the old one, leaves Len, the live keys and the other entries as they      *)
(* were, evicts nothing and fires neither callback, also when totalWeight    *)
(* then exceeds the capacity.                                                *)
C22_UpdateInPlace ==
    [][(last'.op = "Set" /\ items[last'.key] # Nil)
        => LET key   == last'.key
               value == last'.value
               old   == mem[items[key]]
           IN  /\ ~panicked'
               /\ Live' = Live
               /\ mem'[items'[key]] = newScoredItem(key, value)
               /\ \A k \in Live \ {key} : mem'[items'[k]] = mem[items[k]]
               /\ totalWeight'
                     = totalWeight + computeWeight(value) - old.weight
               /\ Len(evictList') = Len(evictList)
               /\ evictedCalls' = <<>>
               /\ addedCalls' = <<>>]_vars

(* a Set has just replaced the value of a live key by a heavier one, which  *)
(* takes totalWeight over the capacity with two entries live                 *)
C22_Witness ==
    /\ last.op = "Set"
    /\ ~panicked
    /\ addedCalls = <<>>
    /\ Cardinality(Live) = 2
    /\ totalWeight > size
    /\ totalWeight = SumWeight(Live)

(* C23: in every reachable state each non-root position of the eviction     *)
(* heap holds an entry whose score is not lower than the score held by its   *)
(* parent position, so position 0 holds a minimum-score entry.               *)
C23_HeapOrder ==
    \A j \in 1..(Len(evictList) - 1) :
        mem[At(evictList, (j - 1) \div 2)].score <= mem[At(evictList, j)].score

(* C24: deadlock freedom: every call issued eventually returns, so as long  *)
(* as the program has not panicked and calls are pending, at least one of    *)
(* the pending calls can take its next step; a state in which every pending  *)
(* call waits for a lock or a result that no pending call can release, such  *)
(* as a Get miss holding its read lock in front of a Set that waits for the  *)
(* write lock, is never reached.                                             *)
Pending(t) == ~At2(t, "idle")

Proceed(t) ==
    \/ GetRLock(t)
    \/ GetItem(t)
    \/ DoLock(t)
    \/ DoRLock(t)
    \/ DoGet(t)
    \/ \E res \in LoaderResults : LoadFn(t, res)
    \/ LoadSetEnter(t)
    \/ LoadSet(t)
    \/ CallDone(t)
    \/ CallDel(t)
    \/ DoWait(t)
    \/ GetRUnlock(t)
    \/ Lock(t)
    \/ LockAcquire(t)
    \/ SetLocked(t)
    \/ RemoveLocked(t)
    \/ PurgeLocked(t)

C24_PendingCallsProceed ==
    (~panicked /\ \E t \in Threads : Pending(t))
        => \E t \in Threads : Pending(t) /\ ENABLED Proceed(t)

====
